---------------------------- MODULE Spec2Model ----------------------------
(***************************************************************************)
(* Model of docstring_parser/numpydoc.py: the numpydoc section parser.     *)
(*                                                                         *)
(* A Python str is a sequence of one-character strings.  The regular       *)
(* expressions of the source are transcribed node by node and run by a     *)
(* backtracking matcher with the priorities of Python's re module (first   *)
(* alternative first, greedy longest first, lazy shortest first).          *)
(* Python's None is the value None below; it is never a str of the model.  *)
(***************************************************************************)
EXTENDS Integers, Sequences, FiniteSets, TLC

NL == "\n"

\* a value that is no str of the model (every str is a sequence of 1-char strings)
None == <<"<None>">>

\* the characters str.strip() removes and \s matches
Whitespace == {" ", "\n", "\t", "\r", "\f"}

\* the characters \w matches, among those the model's texts use
WordChars ==
  {"a","b","c","d","e","f","g","h","i","j","k","l","m","n","o","p","q","r",
   "s","t","u","v","w","x","y","z","A","B","C","D","E","F","G","H","I","J",
   "K","L","M","N","O","P","Q","R","S","T","U","V","W","X","Y","Z","0","1",
   "2","3","4","5","6","7","8","9","_"}

(***************************************************************************)
(* str helpers                                                             *)
(***************************************************************************)
\* s[a:b] with 0-based Python bounds a <= b
Slice(s, a, b) == SubSeq(s, a + 1, b)

\* s[a:]
SliceFrom(s, a) == SubSeq(s, a + 1, Len(s))

\* number of leading whitespace characters of s
RECURSIVE LeadingWs(_)
LeadingWs(s) ==
  IF s # <<>> /\ Head(s) \in Whitespace THEN 1 + LeadingWs(Tail(s)) ELSE 0

\* number of trailing whitespace characters of s
RECURSIVE TrailingWs(_)
TrailingWs(s) ==
  IF s # <<>> /\ s[Len(s)] \in Whitespace
  THEN 1 + TrailingWs(SubSeq(s, 1, Len(s) - 1)) ELSE 0

\* str.lstrip()
lstrip(s) == SliceFrom(s, LeadingWs(s))

\* str.strip()
strip(s) ==
  LET l == lstrip(s) IN SubSeq(l, 1, Len(l) - TrailingWs(l))

\* index (1-based) of the first "\n" of s, 0 if there is none
RECURSIVE FindNL(_, _)
FindNL(s, i) ==
  IF i > Len(s) THEN 0 ELSE IF s[i] = NL THEN i ELSE FindNL(s, i + 1)

\* str.split("\n"): the list of lines, never empty
RECURSIVE split_lines(_)
split_lines(s) ==
  LET i == FindNL(s, 1) IN
  IF i = 0 THEN <<s>>
  ELSE <<SubSeq(s, 1, i - 1)>> \o split_lines(SubSeq(s, i + 1, Len(s)))

\* str.split("\n", 1): one or two parts
split1(s) ==
  LET i == FindNL(s, 1) IN
  IF i = 0 THEN <<s>> ELSE <<SubSeq(s, 1, i - 1), SubSeq(s, i + 1, Len(s))>>

\* "\n".join(lines)
RECURSIVE join_lines(_)
join_lines(lines) ==
  IF lines = <<>> THEN <<>>
  ELSE IF Len(lines) = 1 THEN lines[1]
  ELSE lines[1] \o <<NL>> \o join_lines(Tail(lines))

\* str.startswith / str.endswith
startswith(s, p) == Len(s) >= Len(p) /\ SubSeq(s, 1, Len(p)) = p
endswith(s, p) == Len(s) >= Len(p) /\ SubSeq(s, Len(s) - Len(p) + 1, Len(s)) = p

\* a faulty `or`: the empty str is kept instead of giving way to y
StrOr_keeps_empty(x, y) == x

\* x or y, for a str x
StrOr(x, y) == IF x # <<>> THEN x ELSE y

\* a faulty _clean_str: the stripped string is returned even when it is empty
_clean_str_keeps_empty(string) == strip(string)

\* _clean_str(string): the stripped string, None when nothing is left
_clean_str(string) ==
  LET s == strip(string) IN IF Len(s) > 0 THEN s ELSE None

(***************************************************************************)
(* inspect.cleandoc, the function the source calls to dedent and trim      *)
(* (the texts of the model hold no tab, so expandtabs changes nothing)     *)
(***************************************************************************)
Min(a, b) == IF a < b THEN a ELSE b

\* stands for sys.maxsize: larger than any indentation
NoMargin == -1

\* minimum indentation of the non-blank lines of `lines`
RECURSIVE Margin(_)
Margin(lines) ==
  IF lines = <<>> THEN NoMargin
  ELSE LET line == Head(lines)
           content == Len(lstrip(line))
           rest == Margin(Tail(lines))
       IN IF content = 0 THEN rest
          ELSE IF rest = NoMargin THEN Len(line) - content
          ELSE Min(rest, Len(line) - content)

\* while lines and not lines[-1]: lines.pop()
RECURSIVE PopTrailingBlank(_)
PopTrailingBlank(lines) ==
  IF lines # <<>> /\ lines[Len(lines)] = <<>>
  THEN PopTrailingBlank(SubSeq(lines, 1, Len(lines) - 1)) ELSE lines

\* while lines and not lines[0]: lines.pop(0)
RECURSIVE PopLeadingBlank(_)
PopLeadingBlank(lines) ==
  IF lines # <<>> /\ lines[1] = <<>> THEN PopLeadingBlank(Tail(lines)) ELSE lines

cleandoc(doc) ==
  LET lines == split_lines(doc)
      margin == Margin(Tail(lines))
      dedented ==
        [i \in 1..Len(lines) |->
           IF i = 1 THEN lstrip(lines[1])
           ELSE IF margin # NoMargin THEN SliceFrom(lines[i], Min(margin, Len(lines[i])))
           ELSE lines[i]]
  IN join_lines(PopLeadingBlank(PopTrailingBlank(dedented)))

(***************************************************************************)
(* Regular expressions: a pattern is a sequence of nodes.  Positions are   *)
(* Python's 0-based offsets; the character at offset p is s[p + 1].        *)
(***************************************************************************)
Lit(c) == [t |-> "lit", c |-> c]
\* a character class: the characters of `set`, or with neg all the others
Cls(set, neg) == [t |-> "cls", set |-> set, neg |-> neg]
\* X* (greedy) and X*? (lazy) over a character class
Star(set, neg) == [t |-> "star", set |-> set, neg |-> neg, greedy |-> TRUE]
StarLazy(set, neg) == [t |-> "star", set |-> set, neg |-> neg, greedy |-> FALSE]
\* ^ and $; multiline is the re.M flag of the pattern
Bol(multiline) == [t |-> "bol", multiline |-> multiline]
Eol(multiline) == [t |-> "eol", multiline |-> multiline]
\* What a regular-expression compiler works out of a sequence of nodes, to skip
\* the places where it cannot match:
\*   FirstChars: the characters a match can begin with, [any |-> TRUE] when it
\*     may begin with any character or be empty;
\*   Anchored: every alternative begins with ^ under re.M, so that the group
\*     matches nowhere but at the beginning of a line.
AnyFirst == [any |-> TRUE, set |-> {}]
RECURSIVE FirstChars(_)
FirstChars(nodes) ==
  IF nodes = <<>> THEN AnyFirst
  ELSE LET n == Head(nodes)
       IN CASE n.t = "lit" -> [any |-> FALSE, set |-> {n.c}]
            [] n.t = "cls" /\ ~n.neg -> [any |-> FALSE, set |-> n.set]
            [] n.t = "bol" -> FirstChars(Tail(nodes))
            [] n.t = "grp" /\ ~n.opt /\ \A i \in 1..Len(n.first) : ~n.first[i].any ->
                 [any |-> FALSE,
                  set |-> UNION {n.first[i].set : i \in 1..Len(n.first)}]
            [] OTHER -> AnyFirst
Anchored(alts) ==
  \A i \in 1..Len(alts) :
     alts[i] # <<>> /\ alts[i][1].t = "bol" /\ alts[i][1].multiline

\* ( alt1 | alt2 | ... ): a capturing group called `name` (a number for a
\* positional group), or with cap = FALSE a non-capturing (?: ... )
Group(cap, name, alts, opt) ==
  [t |-> "grp", cap |-> cap, name |-> name, alts |-> alts, opt |-> opt,
   first |-> [i \in 1..Len(alts) |-> FirstChars(alts[i])],
   anchored |-> Anchored(alts)]
Grp(name, alts) == Group(TRUE, name, alts, FALSE)
NonCap(alts) == Group(FALSE, 0, alts, FALSE)
\* (?: ... )?
NonCapOpt(alts) == Group(FALSE, 0, alts, TRUE)

\* \s , . , the literal characters of a str
WsStar == Star(Whitespace, FALSE)
WsStarLazy == StarLazy(Whitespace, FALSE)
DotStarLazy == StarLazy({NL}, TRUE)
Lits(str) == [i \in 1..Len(str) |-> Lit(str[i])]

InCls(n, c) == IF n.neg THEN c \notin n.set ELSE c \in n.set

\* no match
Fail == [end |-> -1, caps |-> <<>>]

AtBol(n, pos, s) == pos = 0 \/ (n.multiline /\ s[pos] = NL)
AtEol(n, pos, s) ==
  \/ pos = Len(s)
  \/ n.multiline /\ s[pos + 1] = NL
  \/ ~n.multiline /\ pos = Len(s) - 1 /\ s[Len(s)] = NL

\* The matcher works on a stack of frames, the innermost group first: a frame is
\* the sequence of nodes of a group's alternative (or of the whole pattern), the
\* index i of the node to match next, and what closing the group records.
Frame(nodes, n, start) ==
  [nodes |-> nodes, i |-> 1, cap |-> n.cap, name |-> n.name, start |-> start]
TopFrame(nodes) ==
  [nodes |-> nodes, i |-> 1, cap |-> FALSE, name |-> 0, start |-> 0]

\* The i-th alternative of group n cannot match at pos: it must begin with
\* a character, and not with the one at pos.
FailsAtOnce(n, i, pos, s) ==
  /\ ~n.first[i].any
  /\ ~(pos < Len(s) /\ s[pos + 1] \in n.first[i].set)

\* The match at offset pos that Python's backtracking finds first: [end, caps],
\* caps the groups closed on the way, or Fail.
RECURSIVE MatchStack(_, _, _, _), MatchAlts(_, _, _, _, _, _)
MatchStack(stack, pos, caps, s) ==
  IF stack = <<>> THEN [end |-> pos, caps |-> caps]
  ELSE
    LET f == stack[1]
    IN IF f.i > Len(f.nodes)
       THEN MatchStack(Tail(stack), pos,
                       IF f.cap
                       THEN Append(caps, [name |-> f.name, start |-> f.start,
                                          end |-> pos])
                       ELSE caps,
                       s)
       ELSE
         LET n == f.nodes[f.i]
             adv == <<[f EXCEPT !.i = f.i + 1]>> \o Tail(stack)
             can == pos < Len(s) /\ InCls(n, s[pos + 1])
         IN CASE n.t = "lit" ->
                   IF pos < Len(s) /\ s[pos + 1] = n.c
                   THEN MatchStack(adv, pos + 1, caps, s) ELSE Fail
              [] n.t = "cls" ->
                   IF can THEN MatchStack(adv, pos + 1, caps, s) ELSE Fail
              [] n.t = "star" ->
                   IF n.greedy
                   THEN LET more == IF can THEN MatchStack(stack, pos + 1, caps, s)
                                    ELSE Fail
                        IN IF more.end >= 0 THEN more
                           ELSE MatchStack(adv, pos, caps, s)
                   ELSE LET now == MatchStack(adv, pos, caps, s)
                        IN IF now.end >= 0 THEN now
                           ELSE IF can THEN MatchStack(stack, pos + 1, caps, s)
                           ELSE Fail
              [] n.t = "bol" ->
                   IF AtBol(n, pos, s) THEN MatchStack(adv, pos, caps, s) ELSE Fail
              [] n.t = "eol" ->
                   IF AtEol(n, pos, s) THEN MatchStack(adv, pos, caps, s) ELSE Fail
              [] n.t = "grp" ->
                   MatchAlts(n,
                             IF n.anchored /\ ~(pos = 0 \/ s[pos] = NL)
                             THEN Len(n.alts) + 1 ELSE 1,
                             adv, pos, caps, s)
MatchAlts(n, i, adv, pos, caps, s) ==
  IF i > Len(n.alts)
  THEN IF n.opt THEN MatchStack(adv, pos, caps, s) ELSE Fail
  ELSE LET r == IF FailsAtOnce(n, i, pos, s) THEN Fail
                ELSE MatchStack(<<Frame(n.alts[i], n, pos)>> \o adv, pos, caps, s)
       IN IF r.end >= 0 THEN r ELSE MatchAlts(n, i + 1, adv, pos, caps, s)

Match(nodes, pos, caps, s) == MatchStack(<<TopFrame(nodes)>>, pos, caps, s)

\* a match object: start = -1 when there is none
NoMatch == [start |-> -1, end |-> -1, caps |-> <<>>]
IsMatch(m) == m.start >= 0

\* the match object of a match r = [end, caps] that starts at offset p
MatchObject(p, r) ==
  IF r.end >= 0 THEN [start |-> p, end |-> r.end, caps |-> r.caps] ELSE NoMatch

\* pattern.match(s): at offset 0 only
re_match(nodes, s) == MatchObject(0, Match(nodes, 0, <<>>, s))

\* the offsets of s, from pos on, at which the pattern matches
MatchOffsets(nodes, s, pos) ==
  {p \in pos..Len(s) : Match(nodes, p, <<>>, s).end >= 0}

\* the match at the least of the offsets `hits`
Leftmost(nodes, s, hits) ==
  IF hits = {} THEN NoMatch
  ELSE MatchObject(CHOOSE q \in hits : \A h \in hits : q <= h,
                   Match(nodes, CHOOSE q \in hits : \A h \in hits : q <= h, <<>>, s))

\* the leftmost match that starts at offset pos or later
FirstFrom(nodes, s, pos) == Leftmost(nodes, s, MatchOffsets(nodes, s, pos))

\* pattern.search(s): the leftmost match
re_search(nodes, s) == FirstFrom(nodes, s, 0)

\* pattern.finditer(s): the non-overlapping matches, left to right, each search
\* resuming where the previous match ended (one further after an empty match)
RECURSIVE FindAll(_, _, _)
MatchThenRest(nodes, s, m) ==
  IF ~IsMatch(m) THEN <<>>
  ELSE <<m>> \o FindAll(nodes, s, IF m.end = m.start THEN m.end + 1 ELSE m.end)
FindAll(nodes, s, pos) == MatchThenRest(nodes, s, FirstFrom(nodes, s, pos))
re_finditer(nodes, s) == FindAll(nodes, s, 0)

\* match.group(name): the text of the group, None if it took no part
HasGroup(m, name) == \E i \in 1..Len(m.caps) : m.caps[i].name = name
LastCap(caps, name) ==
  caps[CHOOSE i \in 1..Len(caps) :
         /\ caps[i].name = name
         /\ \A j \in (i + 1)..Len(caps) : caps[j].name # name]
group(m, s, name) ==
  IF HasGroup(m, name)
  THEN LET c == LastCap(m.caps, name) IN Slice(s, c.start, c.end)
  ELSE None

\* match.group(): the whole match
group0(m, s) == Slice(s, m.start, m.end)

(***************************************************************************)
(* The patterns of the module                                              *)
(***************************************************************************)
\* KV_REGEX = ^[^\s].*$  (re.M)
KV_REGEX == <<Bol(TRUE), Cls(Whitespace, TRUE), Star({NL}, TRUE), Eol(TRUE)>>

\* PARAM_KEY_REGEX = ^(?P<name>.*?)(?:\s*:\s*(?P<type>.*?))?$
PARAM_KEY_REGEX ==
  <<Bol(FALSE),
    Grp("name", << <<DotStarLazy>> >>),
    NonCapOpt(<< <<WsStar, Lit(":"), WsStar, Grp("type", << <<DotStarLazy>> >>)>> >>),
    Eol(FALSE)>>

\* a faulty PARAM_OPTIONAL_REGEX, without its second alternative:
\* (?P<type>.*?)(?:, optional)$
PARAM_OPTIONAL_REGEX_comma_only ==
  <<Grp("type", << <<DotStarLazy>> >>),
    NonCap(<<Lits(<<",", " ", "o", "p", "t", "i", "o", "n", "a", "l">>)>>),
    Eol(FALSE)>>

\* PARAM_OPTIONAL_REGEX = (?P<type>.*?)(?:, optional|\(optional\))$
PARAM_OPTIONAL_REGEX ==
  <<Grp("type", << <<DotStarLazy>> >>),
    NonCap(<<Lits(<<",", " ", "o", "p", "t", "i", "o", "n", "a", "l">>),
             Lits(<<"(", "o", "p", "t", "i", "o", "n", "a", "l", ")">>)>>),
    Eol(FALSE)>>

\* PARAM_DEFAULT_REGEX = [Dd]efault(?: is | = |: |s to |)\s*(?P<value>[\w\-\.]+)
DefaultValueChars == WordChars \cup {"-", "."}
PARAM_DEFAULT_REGEX ==
  <<Cls({"D", "d"}, FALSE)>> \o Lits(<<"e", "f", "a", "u", "l", "t">>) \o
  <<NonCap(<<Lits(<<" ", "i", "s", " ">>), Lits(<<" ", "=", " ">>),
             Lits(<<":", " ">>), Lits(<<"s", " ", "t", "o", " ">>), <<>> >>),
    WsStar,
    Grp("value", << <<Cls(DefaultValueChars, FALSE), Star(DefaultValueChars, FALSE)>> >>)>>

\* RETURN_KEY_REGEX = ^(?:(?P<name>.*?)\s*:\s*)?(?P<type>.*?)$
RETURN_KEY_REGEX ==
  <<Bol(FALSE),
    NonCapOpt(<< <<Grp("name", << <<DotStarLazy>> >>), WsStar, Lit(":"), WsStar>> >>),
    Grp("type", << <<DotStarLazy>> >>),
    Eol(FALSE)>>

(***************************************************************************)
(* Section descriptors: the dataclass Section(title, key) and its          *)
(* subclasses; cls is the class of the object                              *)
(***************************************************************************)
Section(title, key) == [cls |-> "Section", title |-> title, key |-> key]
SphinxSection(title, key) == [cls |-> "SphinxSection", title |-> title, key |-> key]
ParamSection(title, key) == [cls |-> "ParamSection", title |-> title, key |-> key]
RaisesSection(title, key) == [cls |-> "RaisesSection", title |-> title, key |-> key]
ReturnsSection(title, key) == [cls |-> "ReturnsSection", title |-> title, key |-> key]
YieldsSection(title, key) == [cls |-> "YieldsSection", title |-> title, key |-> key]
DeprecationSection(title, key) ==
  [cls |-> "DeprecationSection", title |-> title, key |-> key]

\* the classes that inherit each method
KVClasses == {"ParamSection", "RaisesSection", "ReturnsSection", "YieldsSection"}
SphinxClasses == {"SphinxSection", "DeprecationSection"}

\* The title, as the regular expression it is once formatted into the pattern:
\* a "+" repeats the character before it, every other character of the model's
\* titles (letters, the space) stands for itself.
RECURSIVE TitleRegex(_)
TitleRegex(title) ==
  IF title = <<>> THEN <<>>
  ELSE IF Len(title) >= 2 /\ title[2] = "+"
  THEN <<Lit(title[1]), Star({title[1]}, FALSE)>> \o TitleRegex(SubSeq(title, 3, Len(title)))
  ELSE <<Lit(title[1])>> \o TitleRegex(Tail(title))

\* '-' * len(self.title)
Dashes(n) == [i \in 1..n |-> Lit("-")]

\* Section.title_pattern = ^({title})\s*?\n{dashes}\s*$
\* SphinxSection.title_pattern = ^\.\.\s*({title})\s*::
\* (the group is group 1 of the pattern on its own)
title_pattern(self) ==
  IF self.cls \in SphinxClasses
  THEN <<Bol(TRUE), Lit("."), Lit("."), WsStar,
         Grp(1, <<TitleRegex(self.title)>>), WsStar, Lit(":"), Lit(":")>>
  ELSE <<Bol(TRUE), Grp(1, <<TitleRegex(self.title)>>), WsStarLazy, Lit(NL)>>
       \o Dashes(Len(self.title)) \o <<WsStar, Eol(TRUE)>>

DEFAULT_SECTIONS_LIST ==
  <<
    ParamSection(<<"P","a","r","a","m","e","t","e","r","s">>, "param"),
    ParamSection(<<"P","a","r","a","m","s">>, "param"),
    ParamSection(<<"A","r","g","u","m","e","n","t","s">>, "param"),
    ParamSection(<<"A","r","g","s">>, "param"),
    ParamSection(<<"O","t","h","e","r"," ","P","a","r","a","m","e","t","e","r","s">>, "other_param"),
    ParamSection(<<"O","t","h","e","r"," ","P","a","r","a","m","s">>, "other_param"),
    ParamSection(<<"O","t","h","e","r"," ","A","r","g","u","m","e","n","t","s">>, "other_param"),
    ParamSection(<<"O","t","h","e","r"," ","A","r","g","s">>, "other_param"),
    ParamSection(<<"R","e","c","e","i","v","e","s">>, "receives"),
    ParamSection(<<"R","e","c","e","i","v","e">>, "receives"),
    RaisesSection(<<"R","a","i","s","e","s">>, "raises"),
    RaisesSection(<<"R","a","i","s","e">>, "raises"),
    RaisesSection(<<"W","a","r","n","s">>, "warns"),
    RaisesSection(<<"W","a","r","n">>, "warns"),
    ParamSection(<<"A","t","t","r","i","b","u","t","e","s">>, "attribute"),
    ParamSection(<<"A","t","t","r","i","b","u","t","e">>, "attribute"),
    ReturnsSection(<<"R","e","t","u","r","n","s">>, "returns"),
    ReturnsSection(<<"R","e","t","u","r","n">>, "returns"),
    YieldsSection(<<"Y","i","e","l","d","s">>, "yields"),
    YieldsSection(<<"Y","i","e","l","d">>, "yields"),
    Section(<<"E","x","a","m","p","l","e","s">>, "examples"),
    Section(<<"E","x","a","m","p","l","e">>, "examples"),
    Section(<<"W","a","r","n","i","n","g","s">>, "warnings"),
    Section(<<"W","a","r","n","i","n","g">>, "warnings"),
    Section(<<"S","e","e"," ","A","l","s","o">>, "see_also"),
    Section(<<"R","e","l","a","t","e","d">>, "see_also"),
    Section(<<"N","o","t","e","s">>, "notes"),
    Section(<<"N","o","t","e">>, "notes"),
    Section(<<"R","e","f","e","r","e","n","c","e","s">>, "references"),
    Section(<<"R","e","f","e","r","e","n","c","e">>, "references"),
    DeprecationSection(<<"d","e","p","r","e","c","a","t","e","d">>, "deprecation")
  >>

(***************************************************************************)
(* dict: the entries in insertion order; setting an existing key keeps its *)
(* place and replaces its value                                            *)
(***************************************************************************)
HasKey(d, k) == \E i \in 1..Len(d) : d[i].k = k
DictGet(d, k) == d[CHOOSE i \in 1..Len(d) : d[i].k = k].v
DictSet(d, k, v) ==
  IF HasKey(d, k)
  THEN [i \in 1..Len(d) |-> IF d[i].k = k THEN [k |-> k, v |-> v] ELSE d[i]]
  ELSE Append(d, [k |-> k, v |-> v])
DictValues(d) == [i \in 1..Len(d) |-> d[i].v]

\* {s.title: s for s in list}
RECURSIVE DictByTitle(_)
DictByTitle(list) ==
  IF list = <<>> THEN <<>>
  ELSE LET s == list[Len(list)]
       IN DictSet(DictByTitle(SubSeq(list, 1, Len(list) - 1)), s.title, s)

DEFAULT_SECTIONS == DictByTitle(DEFAULT_SECTIONS_LIST)

(***************************************************************************)
(* The records of .common, as the constructor calls of the source fill     *)
(* them                                                                    *)
(***************************************************************************)
DocstringMeta(args, description) ==
  [cls |-> "DocstringMeta", args |-> args, description |-> description]
DocstringParam(args, description, arg_name, type_name, is_optional, default) ==
  [cls |-> "DocstringParam", args |-> args, description |-> description,
   arg_name |-> arg_name, type_name |-> type_name,
   is_optional |-> is_optional, default |-> default]
DocstringRaises(args, description, type_name) ==
  [cls |-> "DocstringRaises", args |-> args, description |-> description,
   type_name |-> type_name]
DocstringReturns(args, description, type_name, is_generator, return_name) ==
  [cls |-> "DocstringReturns", args |-> args, description |-> description,
   type_name |-> type_name, is_generator |-> is_generator,
   return_name |-> return_name]
DocstringDeprecated(args, description, version) ==
  [cls |-> "DocstringDeprecated", args |-> args, description |-> description,
   version |-> version]

\* Docstring(): every field absent, no meta
Docstring ==
  [short_description |-> None, long_description |-> None,
   blank_after_short_description |-> None,
   blank_after_long_description |-> None, meta |-> <<>>]

(***************************************************************************)
(* The section parsers.  Each returns the records it yields, in the order  *)
(* it yields them: m is the record; at (the offset in the chunk it was     *)
(* read at) and key (the key line of an item) are kept beside it to state  *)
(* where it came from.                                                     *)
(***************************************************************************)
\* _pairwise(iterable, end=None): each element with the next one, the last
\* with `end` (a match that is no match)
\* a faulty _pairwise: the pairs come out last first
_pairwise_reversed(iterable) ==
  [i \in 1..Len(iterable) |->
     LET k == Len(iterable) + 1 - i
     IN <<iterable[k], IF k < Len(iterable) THEN iterable[k + 1] ELSE NoMatch>>]

_pairwise(iterable) ==
  [i \in 1..Len(iterable) |->
     <<iterable[i], IF i < Len(iterable) THEN iterable[i + 1] ELSE NoMatch>>]

\* Section.parse
Section_parse(self, text) ==
  << [m |-> DocstringMeta(<<self.key>>, _clean_str(text)), at |-> 0, key |-> None] >>

\* ParamSection._parse_item from `if type_name is not None` on: type0 is the
\* type group of the key and optional_match what PARAM_OPTIONAL_REGEX makes of
\* it.  is_optional is "True", "False" or "None".
ParamSection_record(self, value, arg_name, type0, optional_match, default_match) ==
  DocstringParam(<<self.key, arg_name>>, _clean_str(value), arg_name,
                 IF IsMatch(optional_match) THEN group(optional_match, type0, "type")
                 ELSE type0,
                 IF type0 = None THEN "None"
                 ELSE IF IsMatch(optional_match) THEN "True" ELSE "False",
                 IF IsMatch(default_match) THEN group(default_match, value, "value")
                 ELSE None)

\* PARAM_OPTIONAL_REGEX.match(type_name), when type_name is not None
optional_match_of(type0) ==
  IF type0 # None THEN re_match(PARAM_OPTIONAL_REGEX, type0) ELSE NoMatch

\* m.group(name), when m is not None
group_or_None(m, s, name) == IF IsMatch(m) THEN group(m, s, name) ELSE None

\* ParamSection._parse_item after m = PARAM_KEY_REGEX.match(key)
ParamSection_parse_key(self, value, arg_name, type0) ==
  ParamSection_record(self, value, arg_name, type0, optional_match_of(type0),
                      IF Len(value) > 0 THEN re_search(PARAM_DEFAULT_REGEX, value)
                      ELSE NoMatch)

ParamSection_parse_match(self, key, value, m) ==
  ParamSection_parse_key(self, value, group_or_None(m, key, "name"),
                         group_or_None(m, key, "type"))

\* ParamSection._parse_item
ParamSection_parse_item(self, key, value) ==
  ParamSection_parse_match(self, key, value, re_match(PARAM_KEY_REGEX, key))

\* RaisesSection._parse_item
RaisesSection_parse_item(self, key, value) ==
  DocstringRaises(<<self.key, key>>, _clean_str(value),
                  IF Len(key) > 0 THEN key ELSE None)

\* ReturnsSection._parse_item after m = RETURN_KEY_REGEX.match(key);
\* is_generator is the class attribute
ReturnsSection_parse_match(self, key, value, m) ==
  DocstringReturns(<<self.key>>, _clean_str(value), group_or_None(m, key, "type"),
                   self.cls = "YieldsSection", group_or_None(m, key, "name"))

\* ReturnsSection._parse_item
ReturnsSection_parse_item(self, key, value) ==
  ReturnsSection_parse_match(self, key, value, re_match(RETURN_KEY_REGEX, key))

\* self._parse_item, by the class of self
_parse_item(self, key, value) ==
  CASE self.cls = "ParamSection" -> ParamSection_parse_item(self, key, value)
    [] self.cls = "RaisesSection" -> RaisesSection_parse_item(self, key, value)
    [] self.cls \in {"ReturnsSection", "YieldsSection"} ->
         ReturnsSection_parse_item(self, key, value)

\* the body of the loop of _KVSection.parse, for one pair (match, next_match)
_KVSection_item(self, text, match, next_match) ==
  [m |-> _parse_item(self, group0(match, text),
                     cleandoc(Slice(text, match.end,
                                    IF IsMatch(next_match) THEN next_match.start
                                    ELSE Len(text)))),
   at |-> match.start,
   key |-> group0(match, text)]

_KVSection_items(self, text, pairs) ==
  [i \in 1..Len(pairs) |-> _KVSection_item(self, text, pairs[i][1], pairs[i][2])]

\* _KVSection.parse
_KVSection_parse(self, text) ==
  _KVSection_items(self, text, _pairwise(re_finditer(KV_REGEX, text)))

\* DeprecationSection.parse after the split: version and desc
DeprecationSection_record(self, version, desc) ==
  << [m |-> DocstringDeprecated(<<self.key>>,
                                IF desc # None THEN _clean_str(cleandoc(desc))
                                ELSE None,
                                _clean_str(version)),
      at |-> 0, key |-> None] >>

DeprecationSection_parts(self, parts) ==
  DeprecationSection_record(self, parts[1], parts[2])

\* DeprecationSection.parse
DeprecationSection_parse(self, text) ==
  DeprecationSection_parts(self, split1(text) \o <<None, None>>)

\* factory.parse(text), by the class of the descriptor
Section_dispatch_parse(factory, text) ==
  CASE factory.cls \in KVClasses -> _KVSection_parse(factory, text)
    [] factory.cls = "DeprecationSection" -> DeprecationSection_parse(factory, text)
    [] OTHER -> Section_parse(factory, text)

(***************************************************************************)
(* NumpyParser                                                             *)
(***************************************************************************)
\* re.compile("|".join(patterns), flags=re.M): the alternatives in order, the
\* group of the i-th pattern being group i of the whole
Renumber(pattern, i) ==
  [j \in 1..Len(pattern) |->
     IF pattern[j].t = "grp" /\ pattern[j].cap
     THEN [pattern[j] EXCEPT !.name = i] ELSE pattern[j]]
re_compile_join(patterns) ==
  <<NonCap([i \in 1..Len(patterns) |-> Renumber(patterns[i], i)])>>

\* NumpyParser._setup: the value it gives self.titles_re.  re is the compiled
\* pattern and ngroups the number of its groups; owners[i] is the descriptor whose
\* title_pattern is the i-th alternative.
_setup(sections) ==
  LET values == DictValues(sections)
  IN [re |-> re_compile_join([i \in 1..Len(values) |-> title_pattern(values[i])]),
      ngroups |-> Len(values),
      owners |-> values]

\* The optional argument of NumpyParser.__init__: None, or a dict
NoSections == [given |-> FALSE, dict |-> <<>>]
Given(dict) == [given |-> TRUE, dict |-> dict]

\* NumpyParser.__init__: the value of self.sections,
\* (sections or DEFAULT_SECTIONS).copy()
init_sections(sections) ==
  IF ~sections.given \/ sections.dict = <<>> THEN DEFAULT_SECTIONS ELSE sections.dict

\* no descriptor: the lookup that would give one raised
NoDescriptor == [cls |-> "none", title |-> None, key |-> ""]

\* next(g for g in match.groups() if g is not None): the number of the first
\* group that took part, 0 when there is none (the generator is exhausted and
\* next raises StopIteration)
RECURSIVE FirstGroup(_, _, _)
FirstGroup(m, i, n) ==
  IF i > n THEN 0
  ELSE IF HasGroup(m, i) THEN i
  ELSE FirstGroup(m, i + 1, n)

RECURSIVE Concat(_)
Concat(seqs) == IF seqs = <<>> THEN <<>> ELSE Head(seqs) \o Concat(Tail(seqs))

\* What the loop of NumpyParser.parse reads at one header of meta_chunk: the
\* title taken from the match (g is the number of the first group that took
\* part), the section chunk, and `owner`, the descriptor whose pattern is the
\* alternative that matched.
SectionHeader(titles_re, meta_chunk, match, nextmatch, g) ==
  [start |-> match.start,
   title |-> IF g = 0 THEN None ELSE group(match, meta_chunk, g),
   owner |-> IF g = 0 THEN NoDescriptor ELSE titles_re.owners[g],
   last |-> ~IsMatch(nextmatch),
   chunk |-> Slice(meta_chunk, match.end,
                   IF IsMatch(nextmatch) THEN nextmatch.start ELSE Len(meta_chunk))]

SectionHeadersOf(titles_re, meta_chunk, pairs) ==
  [i \in 1..Len(pairs) |->
     SectionHeader(titles_re, meta_chunk, pairs[i][1], pairs[i][2],
                   FirstGroup(pairs[i][1], 1, titles_re.ngroups))]

\* the headers of meta_chunk, in the order the loop takes them
SectionHeaders(titles_re, meta_chunk) ==
  SectionHeadersOf(titles_re, meta_chunk,
                   _pairwise(re_finditer(titles_re.re, meta_chunk)))

\* the exception the lookups of the loop raise at header h, "" if none
RaisedAt(sections, h) ==
  IF h.title = None THEN "StopIteration"
  ELSE IF ~HasKey(sections, h.title) THEN "KeyError"
  ELSE ""

\* the number of headers the loop reaches: all of them, or up to the first at
\* which a lookup raises
Reached(sections, headers) ==
  LET bad == {i \in 1..Len(headers) : RaisedAt(sections, headers[i]) # ""}
  IN IF bad = {} THEN Len(headers) ELSE CHOOSE i \in bad : \A j \in bad : i <= j

\* one turn of the loop, at header h: the descriptor looked up and the records
\* its parser yields (none when the lookup raised)
SectionAt(sections, h, raised) ==
  [start |-> h.start, title |-> h.title, owner |-> h.owner,
   last |-> h.last, chunk |-> h.chunk,
   used |-> IF raised = "" THEN DictGet(sections, h.title) ELSE NoDescriptor,
   recs |-> IF raised = "" THEN Section_dispatch_parse(DictGet(sections, h.title), h.chunk)
            ELSE <<>>]

SectionsAt(sections, headers, reached) ==
  [i \in 1..reached |->
     SectionAt(sections, headers[i], RaisedAt(sections, headers[i]))]

\* the records of the sections, in one list (ret.meta.extend for each)
MetaOf(all) == [j \in 1..Len(all) |-> all[j].m]

\* what parse comes to: [raised, doc, sects].  raised is "" when the call returns
\* doc, else the exception that leaves it.  sects tells where doc.meta came
\* from: for each header the loop reached, what it read there, the descriptor it
\* used and the records that descriptor's parser gave.
Outcome(ret, sects, raised) ==
  IF raised # ""
  THEN [raised |-> raised, doc |-> Docstring, sects |-> sects]
  ELSE [raised |-> "",
        doc |-> [ret EXCEPT !.meta = MetaOf(Concat([i \in 1..Len(sects) |-> sects[i].recs]))],
        sects |-> sects]

\* the loop over the headers of meta_chunk
parse_sections(sections, ret, headers, reached) ==
  Outcome(ret, SectionsAt(sections, headers, reached),
          IF reached = 0 THEN "" ELSE RaisedAt(sections, headers[reached]))

\* ret after "Break description into short and long parts"; parts is
\* desc_chunk.split("\n", 1) and long_desc_chunk is parts[1] or ""
parse_description(parts, long_desc_chunk) ==
  IF Len(parts) > 1
  THEN [Docstring EXCEPT
          !.short_description = StrOr(parts[1], None),
          !.blank_after_short_description = startswith(long_desc_chunk, <<NL>>),
          !.blank_after_long_description = endswith(long_desc_chunk, <<NL, NL>>),
          !.long_description = StrOr(strip(long_desc_chunk), None)]
  ELSE [Docstring EXCEPT !.short_description = StrOr(parts[1], None)]

parse_parts(parts) ==
  parse_description(parts, IF Len(parts) > 1 THEN parts[2] ELSE <<>>)

\* NumpyParser.parse after the text is split into desc_chunk and meta_chunk
parse_chunks(sections, desc_chunk, headers) ==
  parse_sections(sections, parse_parts(split1(desc_chunk)), headers,
                 Reached(sections, headers))

\* NumpyParser.parse after match = self.titles_re.search(text)
parse_cleaned(sections, titles_re, cleaned, match) ==
  parse_chunks(sections,
               IF IsMatch(match) THEN Slice(cleaned, 0, match.start) ELSE cleaned,
               SectionHeaders(titles_re,
                              IF IsMatch(match) THEN SliceFrom(cleaned, match.start)
                              ELSE <<>>))

\* NumpyParser.parse after text = inspect.cleandoc(text)
parse_text(sections, titles_re, cleaned) ==
  parse_cleaned(sections, titles_re, cleaned, re_search(titles_re.re, cleaned))

\* NumpyParser.parse
NumpyParser_parse(sections, titles_re, text) ==
  IF text = None \/ text = <<>>
  THEN [raised |-> "", doc |-> Docstring, sects |-> <<>>]
  ELSE parse_text(sections, titles_re, cleandoc(text))

(***************************************************************************)
(* The state: a NumpyParser instance (sections, titles_re) and the parse   *)
(* call made on it (pc, text, ret).  lastAdded remembers the argument of   *)
(* the latest add_section call and whether its title was a new key.        *)
(* key, value, item: a _parse_item call on its own.  doc, napplied: a      *)
(* text that cleandoc is applied to, and how many times it has been.       *)
(***************************************************************************)
VARIABLES sections, titles_re, pc, text, ret, lastAdded,
          key, value, item, doc, napplied

parserVars == <<sections, titles_re, pc, text, ret, lastAdded>>
itemVars == <<key, value, item>>
cleanVars == <<doc, napplied>>
vars == <<sections, titles_re, pc, text, ret, lastAdded, key, value, item, doc, napplied>>

\* no call made yet
NoResult == [raised |-> "none", doc |-> Docstring, sects |-> <<>>]
NoAdd == [given |-> FALSE, fresh |-> FALSE, section |-> Section(<<>>, "")]
NoItem == [cls |-> "none"]

(***************************************************************************)
(* Inputs                                                                  *)
(***************************************************************************)
\* the longest input text, in pieces
MaxPieces == 3
\* the longest key line, in parts
MaxKeyParts == 3
\* the longest text given to cleandoc, in characters
MaxDocLen == 5
\* how many times cleandoc is applied in a row
MaxApply == 2

\* the sequences of at most n elements of S
SeqsUpTo(S, n) == UNION {[1..k -> S] : k \in 0..n}

\* an alias table a caller builds: "Arguments" stands for the Args descriptor
AliasTable ==
  << [k |-> <<"A", "r", "g", "u", "m", "e", "n", "t", "s">>, v |-> ParamSection(<<"A", "r", "g", "s">>, "param")],
     [k |-> <<"N", "o", "t", "e", "s">>, v |-> Section(<<"N", "o", "t", "e", "s">>, "notes")] >>

\* the arguments NumpyParser is constructed with: None, {} and the alias table
ConstructorArgs == {NoSections, Given(<<>>), Given(AliasTable)}

\* the descriptors add_section is called with: a key/value section under the
\* title of the plain Notes section ...
AddChoices == {ParamSection(<<"N", "o", "t", "e", "s">>, "notes")}
\* ... and a section whose title holds a character special in a pattern
NotePlus == Section(<<"N", "o", "t", "e", "+">>, "note_plus")
AddChoicesRe == {NotePlus}

\* The lines and headers the input texts are made of: a text line (also an item
\* key at column 0), a plain header, a key/value header, the deprecation
\* directive, an indented line, two text lines, a blank line
Pieces ==
  { <<"S">>,
    <<"N", "o", "t", "e", "s", "\n", "-", "-", "-", "-", "-">>,
    <<"A", "r", "g", "s", "\n", "-", "-", "-", "-">>,
    <<".", ".", " ", "d", "e", "p", "r", "e", "c", "a", "t", "e", "d", ":", ":">>,
    <<" ", " ", " ", " ", "d">>,
    <<"S", "\n", "T">>,
    <<>> }
\* for the titles with "+": the header of NotePlus as a reader writes it, a Note
\* header underlined like it, and the Notes header
PiecesRe ==
  { <<"S">>,
    <<"N", "o", "t", "e", "+", "\n", "-", "-", "-", "-", "-">>,
    <<"N", "o", "t", "e", "\n", "-", "-", "-", "-", "-">>,
    <<"N", "o", "t", "e", "s", "\n", "-", "-", "-", "-", "-">>,
    <<>> }

TextsOf(pieces) == {join_lines(ps) : ps \in SeqsUpTo(pieces, MaxPieces)} \cup {None}
Texts == TextsOf(Pieces)
TextsRe == TextsOf(PiecesRe)

(***************************************************************************)
(* The parser: construction, add_section, parse                            *)
(***************************************************************************)
IdleItem == key = <<>> /\ value = <<>> /\ item = NoItem
IdleClean == doc = <<>> /\ napplied = 0
IdleParser ==
  /\ sections = DEFAULT_SECTIONS /\ titles_re = _setup(DEFAULT_SECTIONS)
  /\ pc = "ready" /\ text = None /\ ret = NoResult /\ lastAdded = NoAdd

\* NumpyParser.__init__(sections)
NumpyParser_init(arg) ==
  /\ sections = init_sections(arg)
  /\ titles_re = _setup(init_sections(arg))
  /\ pc = "ready"
  /\ text = None
  /\ ret = NoResult
  /\ lastAdded = NoAdd

Init == (\E arg \in ConstructorArgs : NumpyParser_init(arg)) /\ IdleItem /\ IdleClean
InitRe == NumpyParser_init(NoSections) /\ IdleItem /\ IdleClean

\* NumpyParser.add_section(section)
add_section(section) ==
  /\ pc = "ready"
  /\ sections' = DictSet(sections, section.title, section)
  /\ titles_re' = _setup(sections')
  /\ lastAdded' = [given |-> TRUE, fresh |-> ~HasKey(sections, section.title),
                   section |-> section]
  /\ UNCHANGED <<pc, text, ret>>
  /\ UNCHANGED <<itemVars, cleanVars>>

\* NumpyParser.parse(text), up to its return
parse(t) ==
  /\ pc = "ready"
  /\ text' = t
  /\ ret' = NumpyParser_parse(sections, titles_re, t)
  /\ pc' = "returned"
  /\ UNCHANGED <<sections, titles_re, lastAdded>>
  /\ UNCHANGED <<itemVars, cleanVars>>

\* the caller takes the result (or the exception); the instance is free for the
\* next call
Return ==
  /\ pc = "returned"
  /\ pc' = "ready"
  /\ text' = None
  /\ ret' = NoResult
  /\ UNCHANGED <<sections, titles_re, lastAdded>>
  /\ UNCHANGED <<itemVars, cleanVars>>

Next ==
  \/ \E section \in AddChoices : add_section(section)
  \/ \E t \in Texts : parse(t)
  \/ Return
Spec == Init /\ [][Next]_vars

NextRe ==
  \/ \E section \in AddChoicesRe : add_section(section)
  \/ \E t \in TextsRe : parse(t)
  \/ Return
SpecRe == InitRe /\ [][NextRe]_vars

(***************************************************************************)
(* _parse_item on its own: the calls _KVSection.parse makes, with a key    *)
(* that KV_REGEX can give (one line, a non-whitespace first character) and *)
(* a value that cleandoc can give                                          *)
(***************************************************************************)
KeyParts ==
  { <<"x">>,
    <<" ", ":", " ", "i", "n", "t">>,
    <<":">>,
    <<",", " ", "o", "p", "t", "i", "o", "n", "a", "l">>,
    <<"(", "o", "p", "t", "i", "o", "n", "a", "l", ")">>,
    <<" ">> }
Keys ==
  {k \in {Concat(ps) : ps \in SeqsUpTo(KeyParts, MaxKeyParts)} :
     k # <<>> /\ k[1] \notin Whitespace}
Values == {<<>>, <<"D", "e", "f", "a", "u", "l", "t", ":", " ", "5">>}

ParamLike == ParamSection(<<"P", "a", "r", "a", "m", "e", "t", "e", "r", "s">>, "param")
RaiseLike == RaisesSection(<<"R", "a", "i", "s", "e", "s">>, "raises")
ReturnLike ==
  { ReturnsSection(<<"R", "e", "t", "u", "r", "n", "s">>, "returns"),
    YieldsSection(<<"Y", "i", "e", "l", "d", "s">>, "yields") }

InitItem == IdleParser /\ IdleItem /\ IdleClean

\* ParamSection._parse_item(key, value)
ParamItem(k, v) ==
  /\ item = NoItem
  /\ key' = k
  /\ value' = v
  /\ item' = ParamSection_parse_item(ParamLike, k, v)
  /\ UNCHANGED <<parserVars, cleanVars>>

\* RaisesSection._parse_item(key, value)
RaisesItem(k, v) ==
  /\ item = NoItem
  /\ key' = k
  /\ value' = v
  /\ item' = RaisesSection_parse_item(RaiseLike, k, v)
  /\ UNCHANGED <<parserVars, cleanVars>>

\* ReturnsSection._parse_item(key, value), for a Returns or a Yields section
ReturnsItem(self, k, v) ==
  /\ item = NoItem
  /\ key' = k
  /\ value' = v
  /\ item' = ReturnsSection_parse_item(self, k, v)
  /\ UNCHANGED <<parserVars, cleanVars>>

\* the record is yielded; the next item is parsed afresh
ItemDone ==
  /\ item # NoItem
  /\ key' = <<>>
  /\ value' = <<>>
  /\ item' = NoItem
  /\ UNCHANGED <<parserVars, cleanVars>>

NextItem ==
  \/ \E k \in Keys, v \in Values : ParamItem(k, v)
  \/ \E k \in Keys, v \in Values : RaisesItem(k, v)
  \/ \E self \in ReturnLike, k \in Keys, v \in Values : ReturnsItem(self, k, v)
  \/ ItemDone
SpecItem == InitItem /\ [][NextItem]_vars

(***************************************************************************)
(* inspect.cleandoc on its own, applied again to its own result            *)
(***************************************************************************)
DocChars == {" ", "a", NL}
DocTexts == SeqsUpTo(DocChars, MaxDocLen)

InitClean == IdleParser /\ IdleItem /\ doc \in DocTexts /\ napplied = 0

\* doc = inspect.cleandoc(doc)
Clean ==
  /\ napplied < MaxApply
  /\ doc' = cleandoc(doc)
  /\ napplied' = napplied + 1
  /\ UNCHANGED <<parserVars, itemVars>>

NextClean == Clean
SpecClean == InitClean /\ [][NextClean]_vars

(***************************************************************************)
(* Properties of parse (under Spec and SpecRe)                             *)
(***************************************************************************)
\* index (1-based) of the first occurrence of the character c in s, 0 if none
FirstIndex(s, c) ==
  LET hits == {i \in 1..Len(s) : s[i] = c}
  IN IF hits = {} THEN 0 ELSE CHOOSE i \in hits : \A j \in hits : i <= j

\* C1: for every parser instance and every input text, parse returns a
\* Docstring and never raises.
C1_parse_never_raises == pc = "returned" => ret.raised = ""

\* parse has returned from a text in which no registered header occurs
NoHeaderCase ==
  /\ pc = "returned"
  /\ text # None
  /\ MatchOffsets(titles_re.re, cleandoc(text), 0) = {}

\* C2: for a text in which no registered section header occurs, parse returns
\* an empty meta list, short_description = the first line of the cleaned text
\* (absent if that line is empty) and long_description = the rest after the
\* first newline, trimmed (absent if empty or if there is no newline).
C2_no_header_split ==
  NoHeaderCase =>
    LET c == cleandoc(text)
        n == FirstIndex(c, NL)
        first == IF n = 0 THEN c ELSE SubSeq(c, 1, n - 1)
        rest == strip(SubSeq(c, n + 1, Len(c)))
    IN /\ ret.raised = ""
       /\ ret.doc.meta = <<>>
       /\ ret.doc.short_description = (IF first = <<>> THEN None ELSE first)
       /\ ret.doc.long_description = (IF n = 0 \/ rest = <<>> THEN None ELSE rest)

\* a text without header that has both a first line and a rest
C2_witness ==
  /\ NoHeaderCase
  /\ ret.doc.short_description # None
  /\ ret.doc.long_description # None
  /\ ret.doc.meta = <<>>

\* the records of the sections in the order parse met them, each with the offset
\* of its section's header in the meta chunk and its own offset in the section
\* chunk
Provenance(sects) ==
  Concat([i \in 1..Len(sects) |->
            [j \in 1..Len(sects[i].recs) |->
               [m |-> sects[i].recs[j].m, header |-> sects[i].start,
                at |-> sects[i].recs[j].at]]])

Precedes(a, b) == a.header < b.header \/ (a.header = b.header /\ a.at < b.at)

\* the line of chunk that starts at offset `at`
LineAt(chunk, at) ==
  LET tail == SliceFrom(chunk, at)
      n == FirstIndex(tail, NL)
  IN IF n = 0 THEN tail ELSE SubSeq(tail, 1, n - 1)

\* C3: the meta list is ordered by source position: the records of an earlier
\* section precede those of a later one, and within a key/value section the
\* records come in the order of their item-start lines (each record's key is
\* the line of the chunk at the record's offset).
C3_meta_in_source_order ==
  (pc = "returned" /\ ret.raised = "") =>
    LET p == Provenance(ret.sects)
    IN /\ Len(ret.doc.meta) = Len(p)
       /\ \A k \in 1..Len(p) : ret.doc.meta[k] = p[k].m
       /\ \A k \in 1..(Len(p) - 1) : Precedes(p[k], p[k + 1])
       /\ \A i \in 1..Len(ret.sects) :
            ret.sects[i].used.cls \in KVClasses =>
              \A j \in 1..Len(ret.sects[i].recs) :
                LET r == ret.sects[i].recs[j]
                IN /\ r.at = 0 \/ ret.sects[i].chunk[r.at] = NL
                   /\ LineAt(ret.sects[i].chunk, r.at) = r.key

\* a key/value section with two items, followed by a section with a record
C3_witness ==
  /\ pc = "returned"
  /\ ret.raised = ""
  /\ \E i \in 1..Len(ret.sects) :
       /\ ret.sects[i].used.cls \in KVClasses
       /\ Len(ret.sects[i].recs) >= 2
       /\ \E k \in (i + 1)..Len(ret.sects) : Len(ret.sects[k].recs) >= 1
  /\ Len(ret.doc.meta) >= 3

\* the header of an underlined section as a docstring writes it: the title,
\* then as many dashes as the title has characters
HeaderText(section) ==
  section.title \o <<NL>> \o [i \in 1..Len(section.title) |-> "-"]

BeginsWithHeader(t, section) ==
  /\ t # None
  /\ t = HeaderText(section) \/ startswith(t, HeaderText(section) \o <<NL>>)

\* C4: titles_re is derived from exactly the current registry; a descriptor
\* registered under an existing title replaces the earlier one; a descriptor
\* registered by add_section under a previously unused title is recognized as
\* a section boundary by the very next parse call.
C4_registry_in_sync ==
  /\ titles_re = _setup(sections)
  /\ lastAdded.given =>
       /\ HasKey(sections, lastAdded.section.title)
       /\ DictGet(sections, lastAdded.section.title) = lastAdded.section
  /\ (pc = "returned" /\ lastAdded.given /\ lastAdded.fresh
        /\ BeginsWithHeader(text, lastAdded.section)) =>
       /\ Len(ret.sects) >= 1
       /\ ret.sects[1].start = 0

\* C5: for every header parse recognizes, the section parser applied to the
\* chunk is the descriptor that owns the pattern alternative that matched.
C5_parser_is_owner ==
  pc = "returned" =>
    \A i \in 1..Len(ret.sects) :
      ret.sects[i].used.cls # "none" => ret.sects[i].used = ret.sects[i].owner

\* a section whose header is followed at once by the next header: its chunk
\* holds nothing but the line break (or blank lines) between the two
BlankBetween(sect) ==
  /\ ~sect.last
  /\ sect.used.cls # "none"
  /\ strip(sect.chunk) = <<>>

IsItemStart(line) == line # <<>> /\ line[1] \notin Whitespace

\* the item-start lines of a chunk once it is dedented and trimmed
ItemStartLines(chunk) == SelectSeq(split_lines(cleandoc(chunk)), IsItemStart)

\* C7: in a key/value section the item-start lines are determined after the
\* chunk has been dedented by its own common indentation and trimmed: there is
\* one item per least-indented non-blank line, with that line as the key.
C7_items_after_chunk_dedent ==
  pc = "returned" =>
    \A i \in 1..Len(ret.sects) :
      ret.sects[i].used.cls \in KVClasses =>
        [j \in 1..Len(ret.sects[i].recs) |-> ret.sects[i].recs[j].key]
          = ItemStartLines(ret.sects[i].chunk)

(***************************************************************************)
(* Properties of _parse_item (under SpecItem)                              *)
(***************************************************************************)
\* the type clause of a key line: what follows its first colon, without the
\* whitespace after the colon
TypeClause(k) == lstrip(SubSeq(k, FirstIndex(k, ":") + 1, Len(k)))

OptionalMarkers ==
  { <<",", " ", "o", "p", "t", "i", "o", "n", "a", "l">>,
    <<"(", "o", "p", "t", "i", "o", "n", "a", "l", ")">> }
HasMarker(clause) == \E marker \in OptionalMarkers : endswith(clause, marker)
WithoutMarker(clause) ==
  LET marker == CHOOSE mk \in OptionalMarkers : endswith(clause, mk)
  IN SubSeq(clause, 1, Len(clause) - Len(marker))

\* C8: the Param record's optionality is tri-state by the key line: true, with
\* the marker stripped from the type name, iff the key has a type clause ending
\* in ", optional" or "(optional)"; false iff it has a type clause without the
\* marker; unset iff it has no colon at all.
C8_optional_tristate ==
  item.cls = "DocstringParam" =>
    /\ item.is_optional = "True" <=>
         (FirstIndex(key, ":") > 0 /\ HasMarker(TypeClause(key)))
    /\ item.is_optional = "False" <=>
         (FirstIndex(key, ":") > 0 /\ ~HasMarker(TypeClause(key)))
    /\ item.is_optional = "None" <=> FirstIndex(key, ":") = 0
    /\ item.is_optional = "True" => item.type_name = WithoutMarker(TypeClause(key))
    /\ item.is_optional = "False" => item.type_name = TypeClause(key)
    /\ item.is_optional = "None" => item.type_name = None

\* the key line "x : int, optional" with the value "Default: 5"
C8_witness ==
  /\ item.cls = "DocstringParam"
  /\ key = <<"x", " ", ":", " ", "i", "n", "t", ",", " ", "o", "p", "t", "i", "o", "n", "a", "l">>
  /\ item.is_optional = "True"
  /\ item.type_name = <<"i", "n", "t">>
  /\ item.arg_name = <<"x">>
  /\ item.default = <<"5">>

\* C9: the type name of a Returns or Yields record is either absent or a
\* non-empty string; a key line without a colon gives an absent return name
\* and the whole key as the type name.
C9_type_name_absent_or_nonempty ==
  item.cls = "DocstringReturns" =>
    /\ item.type_name = None \/ Len(item.type_name) > 0
    /\ FirstIndex(key, ":") = 0 =>
         (item.return_name = None /\ item.type_name = key)

(***************************************************************************)
(* Property of inspect.cleandoc (under SpecClean)                          *)
(***************************************************************************)
\* C10: the dedent/trim function is idempotent: applied to its own result, it
\* returns that result unchanged.
C10_cleandoc_idempotent == napplied >= 1 => cleandoc(doc) = doc

=============================================================================
